---------------------------- MODULE Spec2Model ----------------------------
(***************************************************************************)
(* numconverter (src/src/main.rs): a command-line numeral converter.       *)
(*                                                                         *)
(* Representation.                                                         *)
(*   - A Rust String / &str is a sequence of one-character strings,        *)
(*     "187" is <<"1","8","7">>.                                           *)
(*   - An Option is a sequence of at most one element: None is <<>> and    *)
(*     Some(x) is <<x>>.                                                   *)
(*   - An unsigned machine integer (u32, u128) is a little-endian sequence *)
(*     of 16-bit limbs: a u32 has 2 limbs, a u128 has 8.  The arithmetic   *)
(*     of the program is carried out on that representation with its       *)
(*     carries, so that the 32- and 128-bit boundaries are the real ones.  *)
(*   - A Result is a record whose kind is "Ok", "Err" or "Panic" (a Rust   *)
(*     panic ends the process without producing a value).                  *)
(***************************************************************************)
EXTENDS Integers, Sequences, FiniteSets, TLC

(***************************************************************************)
(* Fixed-width unsigned integers.                                          *)
(***************************************************************************)
LimbBits == 16
LimbBase == 2^LimbBits
U32Limbs == 2
U128Limbs == 8

\* One pass per bit of a u128 and one more to leave the loop.
MaxPasses == LimbBits * U128Limbs + 1

Limb == 0..(LimbBase - 1)

\* The unsigned integer n (0 <= n < 2^31) on w limbs.
UInt(n, w) == [i \in 1..w |-> IF i = 1 THEN n % LimbBase
                              ELSE IF i = 2 THEN n \div LimbBase ELSE 0]
U32(n) == UInt(n, U32Limbs)
U128(n) == UInt(n, U128Limbs)

\* The largest value of the width (u32::MAX, u128::MAX).
UMax(w) == [i \in 1..w |-> LimbBase - 1]

IsZero(a) == \A i \in 1..Len(a) : a[i] = 0

\* Zero-extension (u128::from, `as u128`) and truncation to w limbs.
Resize(a, w) == [i \in 1..w |-> IF i <= Len(a) THEN a[i] ELSE 0]

\* The value of a number known to fit one limb.
Low(a) == a[1]

\* lo <= a <= hi for small lo and hi (below LimbBase).
InRange(a, lo, hi) == (\A i \in 2..Len(a) : a[i] = 0) /\ lo <= a[1] /\ a[1] <= hi

\* -1, 0, 1 as a < b, a = b, a > b; a and b have the same number of limbs.
RECURSIVE CmpFrom(_, _, _)
CmpFrom(a, b, i) ==
    IF i = 0 THEN 0
    ELSE IF a[i] < b[i] THEN -1
    ELSE IF a[i] > b[i] THEN 1
    ELSE CmpFrom(a, b, i - 1)
Cmp(a, b) == CmpFrom(a, b, Len(a))

\* a * s + c for small s and c: [val |-> the low Len(a) limbs, carry |-> the rest].
RECURSIVE MulAddFrom(_, _, _, _, _)
MulAddFrom(a, s, i, carry, acc) ==
    IF i > Len(a) THEN [val |-> acc, carry |-> carry]
    ELSE MulAddFrom(a, s, i + 1, (a[i] * s + carry) \div LimbBase,
                    Append(acc, (a[i] * s + carry) % LimbBase))
MulAdd(a, s, c) == MulAddFrom(a, s, 1, c, <<>>)

\* a - b: [val |-> the difference modulo the width, borrow |-> 1 iff a < b].
RECURSIVE SubFrom(_, _, _, _, _)
SubFrom(a, b, i, borrow, acc) ==
    IF i > Len(a) THEN [val |-> acc, borrow |-> borrow]
    ELSE SubFrom(a, b, i + 1, IF a[i] - b[i] - borrow < 0 THEN 1 ELSE 0,
                 Append(acc, (a[i] - b[i] - borrow + LimbBase) % LimbBase))
Sub(a, b) == SubFrom(a, b, 1, 0, <<>>)

\* n applications of the step F to st.  The recursion halves n, and the first
\* half is computed (the test half = half) before the second starts, so that
\* the depth of the evaluation is logarithmic in the number of steps.
RECURSIVE Iterate(_, _, _)
Iterate(F(_), st, n) ==
    IF n = 0 THEN st
    ELSE IF n = 1 THEN F(st)
    ELSE LET half == Iterate(F, st, n \div 2)
         IN  IF half = half THEN Iterate(F, half, n - (n \div 2)) ELSE half

\* Bit k (0 = least significant) and the number of significant bits.
Bit(a, k) == (a[(k \div LimbBits) + 1] \div (2^(k % LimbBits))) % 2
BitLen(a) ==
    IF IsZero(a) THEN 0
    ELSE LET top == CHOOSE i \in 1..Len(a) :
                        a[i] # 0 /\ \A j \in (i + 1)..Len(a) : a[j] = 0
             bits == CHOOSE n \in 1..LimbBits : a[top] < 2^n /\ a[top] >= 2^(n - 1)
         IN  LimbBits * (top - 1) + bits

\* a shifted right by n bits.
ShiftRight(a, n) ==
    LET ls == n \div LimbBits
        bs == n % LimbBits
        limb(i) == IF i <= Len(a) THEN a[i] ELSE 0
    IN  [i \in 1..Len(a) |->
            ((limb(i + ls) \div 2^bs)
             + (limb(i + ls + 1) % 2^bs) * 2^(LimbBits - bs)) % LimbBase]

\* Division by a divisor s below 2^15, limb by limb from the most significant.
RECURSIVE DivSmallFrom(_, _, _, _, _)
DivSmallFrom(a, s, i, rem, acc) ==
    IF i = 0 THEN [quot |-> acc, rem |-> UInt(rem, Len(a))]
    ELSE DivSmallFrom(a, s, i - 1, (rem * LimbBase + a[i]) % s,
                      <<(rem * LimbBase + a[i]) \div s>> \o acc)

\* One bit of the division by shift and subtract, from the most significant
\* bit down.  The running remainder takes one more limb than the operands.
DivModStep(st) ==
    LET r2 == MulAdd(st.r, 2, Bit(st.a, st.k - 1)).val
        ge == Cmp(r2, st.b) >= 0
    IN  [st EXCEPT !.k = st.k - 1,
                   !.q = MulAdd(st.q, 2, IF ge THEN 1 ELSE 0).val,
                   !.r = IF ge THEN Sub(r2, st.b).val ELSE r2]

\* Unsigned division a / b and remainder a % b, b # 0.  The leading
\* BitLen(b) - 1 bits of a are less than b: the division starts with them as
\* the remainder and takes the other bits of a one by one.
DivMod(a, b) ==
    IF InRange(b, 1, (LimbBase \div 2) - 1)
    THEN DivSmallFrom(a, Low(b), Len(a), 0, <<>>)
    ELSE IF BitLen(a) < BitLen(b) THEN [quot |-> UInt(0, Len(a)), rem |-> a]
    ELSE LET steps == BitLen(a) - (BitLen(b) - 1)
             end == Iterate(DivModStep,
                            [a |-> a, b |-> Resize(b, Len(a) + 1), k |-> steps,
                             q |-> UInt(0, Len(a)),
                             r |-> Resize(ShiftRight(a, steps), Len(a) + 1)],
                            steps)
         IN  [quot |-> end.q, rem |-> Resize(end.r, Len(a))]

(***************************************************************************)
(* Characters and strings.                                                 *)
(***************************************************************************)
None == <<>>
Some(v) == <<v>>

DecChars == <<"0", "1", "2", "3", "4", "5", "6", "7", "8", "9">>
UpperChars == <<"A", "B", "C", "D", "E", "F", "G", "H", "I", "J", "K", "L", "M",
                "N", "O", "P", "Q", "R", "S", "T", "U", "V", "W", "X", "Y", "Z">>
LowerChars == <<"a", "b", "c", "d", "e", "f", "g", "h", "i", "j", "k", "l", "m",
                "n", "o", "p", "q", "r", "s", "t", "u", "v", "w", "x", "y", "z">>

\* The position of c in the alphabet s, 0 when it is not in it.
IndexOf(c, s) == IF \E i \in 1..Len(s) : s[i] = c
                 THEN CHOOSE i \in 1..Len(s) : s[i] = c ELSE 0

\* A variant of to_digit that takes the radix itself for a digit.
to_digit_inclusive(c, radix) ==
    LET v == IF IndexOf(c, DecChars) > 0 THEN IndexOf(c, DecChars) - 1
             ELSE IF IndexOf(c, UpperChars) > 0 THEN IndexOf(c, UpperChars) + 9
             ELSE IF IndexOf(c, LowerChars) > 0 THEN IndexOf(c, LowerChars) + 9
             ELSE -1
    IN  IF v >= 0 /\ v <= radix THEN v ELSE -1

\* char::to_digit(radix): the digit value of c, -1 for None.  Letters count
\* from 10 in either case.
to_digit(c, radix) ==
    LET v == IF IndexOf(c, DecChars) > 0 THEN IndexOf(c, DecChars) - 1
             ELSE IF IndexOf(c, UpperChars) > 0 THEN IndexOf(c, UpperChars) + 9
             ELSE IF IndexOf(c, LowerChars) > 0 THEN IndexOf(c, LowerChars) + 9
             ELSE -1
    IN  IF v >= 0 /\ v < radix THEN v ELSE -1

\* str::replace(c, ""): every occurrence of c removed.
replace(s, c) == SelectSeq(s, LAMBDA x : x # c)

Ok(v) == [kind |-> "Ok", val |-> v]
Err(e) == [kind |-> "Err", err |-> e]
Panic(m) == [kind |-> "Panic", msg |-> m]

\* A line println! writes for an error: the format string and its arguments.
Message(m, args) == [kind |-> "message", msg |-> m, args |-> args]

(***************************************************************************)
(* <uN>::from_str_radix(src, radix) of the standard library, on w limbs.   *)
(* The radix is a u32; a radix outside 2..=36 panics before the text is    *)
(* looked at.  One leading "+" is accepted; a "-" is not a digit of an     *)
(* unsigned type; the accumulation is checked.                             *)
(***************************************************************************)
\* One character of the accumulation loop: result = result * radix + digit.
from_str_step(st) ==
    IF st.res.kind # "Ok" THEN st
    ELSE IF to_digit(st.digits[st.i], st.radix) < 0
    THEN [st EXCEPT !.res = Err("InvalidDigit")]
    ELSE LET m == MulAdd(st.res.val, st.radix, to_digit(st.digits[st.i], st.radix))
         IN  IF m.carry # 0 THEN [st EXCEPT !.res = Err("PosOverflow")]
             ELSE [st EXCEPT !.res = Ok(m.val), !.i = st.i + 1]
from_str_digits(digits, radix, w) ==
    Iterate(from_str_step,
            [digits |-> digits, radix |-> radix, i |-> 1, res |-> Ok(UInt(0, w))],
            Len(digits)).res

from_str_radix(src, radix, w) ==
    IF ~InRange(radix, 2, 36)
    THEN Panic("from_str_radix_int: radix must lie in the range [2, 36]")
    ELSE IF src = <<>> THEN Err("Empty")
    ELSE IF src = <<"+">> \/ src = <<"-">> THEN Err("InvalidDigit")
    ELSE from_str_digits(IF src[1] = "+" THEN Tail(src) ELSE src,
                         Low(radix), w)

(***************************************************************************)
(* The error codes of the program (enum ErrorCode).                        *)
(***************************************************************************)
BaseConversionErr == "BaseConversionErr"
TargetBaseErr == "TargetBaseErr"
InputBaseErr == "InputBaseErr"
ErrorCode == {BaseConversionErr, TargetBaseErr, InputBaseErr}

(***************************************************************************)
(* fn convert_to_base_10(from_num, from_base, sep_char)                    *)
(***************************************************************************)
\* A variant of convert_to_base_10 that reports a literal left empty by the
\* removal of the separators as it reports a missing one.
convert_to_base_10_empty_as_absent(from_num, from_base, sep_char) ==
    IF from_num = None \/ replace(from_num[1], sep_char) = <<>>
    THEN [res |-> Err(InputBaseErr),
          out |-> <<Message("no number to convert was provided", <<>>)>>]
    ELSE LET r == from_str_radix(replace(from_num[1], sep_char), from_base, U128Limbs)
         IN  IF r.kind = "Err"
             THEN [res |-> Err(BaseConversionErr),
                   out |-> <<Message("Could not convert {} from base {}",
                                     <<replace(from_num[1], sep_char), from_base>>)>>]
             ELSE [res |-> r, out |-> <<>>]

\* res is what the function returns (or its panic) and out what it has
\* printed by then: the message of line 128 or of line 135 with an error,
\* nothing with Ok or with the panic of from_str_radix.
convert_to_base_10(from_num, from_base, sep_char) ==
    IF from_num = None
    THEN [res |-> Err(InputBaseErr),
          out |-> <<Message("no number to convert was provided", <<>>)>>]
    ELSE LET r == from_str_radix(replace(from_num[1], sep_char), from_base, U128Limbs)
         IN  IF r.kind = "Err"
             THEN [res |-> Err(BaseConversionErr),
                   out |-> <<Message("Could not convert {} from base {}",
                                     <<replace(from_num[1], sep_char), from_base>>)>>]
             ELSE [res |-> r, out |-> <<>>]

(***************************************************************************)
(* fn as_string_base(num, base).  checks is the overflow-checks setting of the  *)
(* build: with it an overflowing +, -, * or pow panics, without it the     *)
(* result wraps.  Division by zero panics in either build.                 *)
(***************************************************************************)
\* s.pow(exp) on a u128: [val |-> s^exp modulo 2^128, overflow |-> whether
\* the exact power exceeds the width].
pow_step(st) ==
    LET m == MulAdd(st.val, st.s, 0)
    IN  [st EXCEPT !.val = m.val, !.overflow = st.overflow \/ m.carry # 0]
pow(s, exp) ==
    LET end == Iterate(pow_step,
                       [s |-> s, val |-> UInt(1, U128Limbs), overflow |-> FALSE], exp)
    IN  [val |-> end.val, overflow |-> end.overflow]

\* A variant of digit_char that writes the letters in lower case.
digit_char_lower(dg) ==
    IF dg >= 10 THEN LowerChars[dg - 10 + 1] ELSE DecChars[dg + 1]

\* The digit's character: b'A' + (digit - 10) from 10 on, b'0' + digit below.
digit_char(dg) ==
    IF dg >= 10 THEN UpperChars[dg - 10 + 1] ELSE DecChars[dg + 1]

\* One pass of `while tmp > 0 { ... }`.  st.res is "Run" while the loop runs
\* and the function's result once it has returned or panicked.
as_string_step(st) ==
    IF st.res.kind # "Run" THEN st
    ELSE IF IsZero(st.tmp) THEN [st EXCEPT !.res = Ok(st.str_num)]
    ELSE
      LET radix_mask == pow(st.base, st.count)
      IN  IF radix_mask.overflow /\ st.checks
          THEN [st EXCEPT !.res = Panic("attempt to multiply with overflow")]
          ELSE IF IsZero(radix_mask.val)
          THEN [st EXCEPT !.res = Panic("attempt to divide by zero")]
          ELSE
            LET d == DivMod(DivMod(st.tmp, radix_mask.val).quot, U128(st.base)).rem
            IN  IF ~InRange(d, 0, 255)
                THEN [st EXCEPT !.res = Err("Error while trying to convert to radix")]
                ELSE
                  LET digit == Low(d)
                      prod == MulAdd(radix_mask.val, digit, 0)
                      rest == Sub(st.tmp, prod.val)
                  IN  IF st.checks /\ prod.carry # 0
                      THEN [st EXCEPT !.res = Panic("attempt to multiply with overflow")]
                      ELSE IF st.checks /\ rest.borrow # 0
                      THEN [st EXCEPT !.res = Panic("attempt to subtract with overflow")]
                      ELSE [st EXCEPT !.tmp = rest.val, !.count = st.count + 1,
                                      !.str_num = <<digit_char(digit)>> \o st.str_num]

\* The loop, run for at most MaxPasses passes; a u128 has at most 128 digits, so
\* that a loop still running then does not end.
as_string_loop(num, base, checks) ==
    Iterate(as_string_step,
            [tmp |-> num, count |-> 0, str_num |-> <<>>, base |-> base,
             checks |-> checks, res |-> [kind |-> "Run"]],
            MaxPasses).res

\* A variant of as_string_base whose range check lets base 34 through.
as_string_base_upto34(num, base, checks) ==
    IF ~InRange(base, 2, 34)
    THEN Err("Invalid Base.  Base must be between 2 and 32 inclusive")
    ELSE as_string_loop(num, Low(base), checks)

as_string_base(num, base, checks) ==
    IF ~InRange(base, 2, 33)
    THEN Err("Invalid Base.  Base must be between 2 and 32 inclusive")
    ELSE as_string_loop(num, Low(base), checks)


(***************************************************************************)
(* fn get_from_base(from_base) and fn get_bases(opt, to_bases).            *)
(* get_bases changes to_bases in place: the model returns the tuple as     *)
(* bases and the list as it is left as to_bases.                           *)
(***************************************************************************)
get_from_base(from_base_char) ==
    IF from_base_char = <<"b">> THEN Some(U32(2))
    ELSE IF from_base_char = <<"o">> THEN Some(U32(8))
    ELSE IF from_base_char = <<"d">> THEN Some(U32(10))
    ELSE IF from_base_char = <<"h">> \/ from_base_char = <<"x">> THEN Some(U32(16))
    ELSE None

\* A variant of get_bases that pushes from_num at the back of the list.
get_bases_push_back(o, bases_in) ==
    IF get_from_base(o.from_base_char) # None
    THEN [bases |-> <<get_from_base(o.from_base_char)[1], o.from_num>>,
          to_bases |-> bases_in]
    ELSE [bases |-> <<o.from_base, Some(o.from_base_char)>>,
          to_bases |-> IF o.from_num # None THEN Append(bases_in, o.from_num[1])
                       ELSE bases_in]

get_bases(o, bases_in) ==
    IF get_from_base(o.from_base_char) # None
    THEN [bases |-> <<get_from_base(o.from_base_char)[1], o.from_num>>,
          to_bases |-> bases_in]
    ELSE [bases |-> <<o.from_base, Some(o.from_base_char)>>,
          to_bases |-> IF o.from_num # None THEN <<o.from_num[1]>> \o bases_in
                       ELSE bases_in]

(***************************************************************************)
(* The grouping step of main (lines 77-89).  insert_idx is an i32.         *)
(***************************************************************************)
I32Max == 2147483647

\* `x as i32` of a u32: the same 32 bits read as two's complement.
as_i32(u) == IF u[2] < LimbBase \div 2 THEN u[2] * LimbBase + u[1]
             ELSE (u[2] - LimbBase) * LimbBase + u[1]

\* x - y on i32 for 0 <= x: [val |-> the difference, wrapped into the i32
\* range, overflow |-> whether it wrapped].  Only a negative y can overflow.
i32_sub(x, y) ==
    IF y < 0 /\ x > I32Max + y
    THEN [val |-> ((x - (y + I32Max + 1)) - I32Max) - 1, overflow |-> TRUE]
    ELSE [val |-> x - y, overflow |-> FALSE]

\* One pass of `while insert_idx > 0 { ... }`.
group_step(st) ==
    IF st.res.kind # "Run" THEN st
    ELSE IF ~(st.insert_idx > 0) THEN [st EXCEPT !.res = Ok(st.out_str)]
    ELSE IF st.insert_idx > Len(st.out_str)
    THEN [st EXCEPT !.res = Panic("byte index is out of bounds")]
    ELSE LET left == SubSeq(st.out_str, 1, st.insert_idx)
             right == SubSeq(st.out_str, st.insert_idx + 1, Len(st.out_str))
             next_idx == i32_sub(st.insert_idx, st.step)
         IN  IF next_idx.overflow /\ st.checks
             THEN [st EXCEPT !.res = Panic("attempt to subtract with overflow")]
             ELSE [st EXCEPT !.out_str = (left \o <<st.sep_char>>) \o right,
                             !.insert_idx = next_idx.val]

\* Lines 80-88: the first insert_idx and the loop.  A step of 1 or more takes
\* at most one pass per character and one more to leave the loop.
group(out_str, sep_length, sep_char, checks) ==
    LET first_idx == i32_sub(Len(out_str), as_i32(sep_length))
    IN  IF first_idx.overflow /\ checks
        THEN Panic("attempt to subtract with overflow")
        ELSE Iterate(group_step,
                     [out_str |-> out_str, insert_idx |-> first_idx.val,
                      step |-> as_i32(sep_length), sep_char |-> sep_char,
                      checks |-> checks, res |-> [kind |-> "Run"]],
                     Len(out_str) + 1).res

\* Lines 77-89: `if !opt.no_sep && opt.sep_length > 0 { ... }`.
pad_out_str(out_str, o, checks) ==
    IF ~o.no_sep /\ ~IsZero(o.sep_length)
    THEN group(out_str, o.sep_length, o.sep_char, checks)
    ELSE Ok(out_str)


(***************************************************************************)
(* fn main.  The process is followed through its steps: the resolution of  *)
(* the positional arguments, the conversion of the input number, one pass  *)
(* of the `for target_base in to_bases` loop per step, and the return.     *)
(* stdout is the sequence of what was printed: a message of the program,   *)
(* or the line of a result.  Opt carries the fields main reads (pad is     *)
(* never read by main but is part of what verbosity > 0 prints).           *)
(***************************************************************************)
VARIABLES
    opt,        \* the parsed command line (struct Opt)
    checks,     \* whether the build panics on integer overflow
    pc,         \* where main is: "resolve", "convert", "loop", "done"; "idle"
    to_bases,   \* the output-base list
    from_base,  \* bases.0
    from_num,   \* bases.1
    num,        \* the canonical value, None before the conversion
    idx,        \* the position in to_bases of the pass to come
    stdout,     \* what has been printed
    exit,       \* how main ended: Ok, Err(code), Panic; "Run" before
    call,       \* a call of one function on its own: its name and arguments
    ret,        \* its result, "Pending" before the call
    back        \* the result of parsing a rendered string back, "Pending" before

vars == <<opt, checks, pc, to_bases, from_base, from_num, num, idx, stdout, exit,
          call, ret, back>>
main_vars == <<opt, checks, pc, to_bases, from_base, from_num, num, idx, stdout, exit>>
quiet_vars == <<opt, checks, pc, to_bases, from_base, from_num, num, idx, exit>>
call_vars == <<call, ret, back>>

Run == [kind |-> "Run"]
Pending == [kind |-> "Pending"]

\* What `{:?}` prints of opt (lines 33-35), and the line of a result.
DebugLine(o) == [kind |-> "debug", opt |-> o]
ResultLine(l) == [kind |-> "result", line |-> l]

DefaultToBases == << <<"2">>, <<"8">>, <<"1", "0">>, <<"1", "6">> >>

\* format!("{:02}", n) for n below 100, which a base that was rendered is.
fmt02(n) == <<DecChars[(n \div 10) + 1], DecChars[(n % 10) + 1]>>

\* A variant of loop_pass that does not look at opt.silent and prints the
\* line of the result in any case.
loop_pass_print_when_silent(target_base, n, o, chk) ==
    LET custom_base == from_str_radix(target_base, U32(10), U32Limbs)
    IN  IF custom_base.kind = "Err"
        THEN [out |-> <<Message("Error with target base {}", <<target_base>>)>>,
              exit |-> Err(TargetBaseErr)]
        ELSE
          LET rendered == as_string_base(n, custom_base.val, chk)
          IN  IF rendered.kind = "Err"
              THEN [out |-> <<Message("Error with custom base: {}", <<rendered.err>>)>>,
                    exit |-> Err(InputBaseErr)]
              ELSE IF rendered.kind = "Panic" THEN [out |-> <<>>, exit |-> rendered]
              ELSE
                LET out_str == pad_out_str(rendered.val, o, chk)
                    prefix == IF ~o.bare
                              THEN (<<"B", "a", "s", "e", " ">>
                                    \o fmt02(Low(custom_base.val))) \o <<":", " ">>
                              ELSE <<>>
                IN  IF out_str.kind = "Panic" THEN [out |-> <<>>, exit |-> out_str]
                    ELSE [out |-> <<ResultLine(prefix \o out_str.val)>>, exit |-> Run]

\* One pass of the loop of main on target_base (lines 61-94): what it prints
\* and how it leaves main (Run: the loop goes on).
loop_pass(target_base, n, o, chk) ==
    LET custom_base == from_str_radix(target_base, U32(10), U32Limbs)
    IN  IF custom_base.kind = "Err"
        THEN [out |-> <<Message("Error with target base {}", <<target_base>>)>>,
              exit |-> Err(TargetBaseErr)]
        ELSE
          LET rendered == as_string_base(n, custom_base.val, chk)
          IN  IF rendered.kind = "Err"
              THEN [out |-> <<Message("Error with custom base: {}", <<rendered.err>>)>>,
                    exit |-> Err(InputBaseErr)]
              ELSE IF rendered.kind = "Panic" THEN [out |-> <<>>, exit |-> rendered]
              ELSE IF o.silent THEN [out |-> <<>>, exit |-> Run]
              ELSE
                LET out_str == pad_out_str(rendered.val, o, chk)
                    prefix == IF ~o.bare
                              THEN (<<"B", "a", "s", "e", " ">>
                                    \o fmt02(Low(custom_base.val))) \o <<":", " ">>
                              ELSE <<>>
                IN  IF out_str.kind = "Panic" THEN [out |-> <<>>, exit |-> out_str]
                    ELSE [out |-> <<ResultLine(prefix \o out_str.val)>>, exit |-> Run]

\* Lines 33-52: the arguments printed if verbosity > 0, get_bases, then the
\* default output bases for an empty list.
Resolve ==
    /\ pc = "resolve"
    /\ stdout' = IF opt.verbosity > 0 THEN Append(stdout, DebugLine(opt)) ELSE stdout
    /\ \E r \in {get_bases(opt, opt.to_bases)} :
           /\ from_base' = r.bases[1]
           /\ from_num' = r.bases[2]
           /\ to_bases' = IF r.to_bases = <<>> THEN DefaultToBases ELSE r.to_bases
    /\ pc' = "convert"
    /\ UNCHANGED <<opt, checks, num, idx, exit, call_vars>>

\* Line 57: convert_to_base_10(from_num, from_base, opt.sep_char)?
Convert ==
    /\ pc = "convert"
    /\ \E r \in {convert_to_base_10(from_num, from_base, opt.sep_char)} :
           /\ stdout' = stdout \o r.out
           /\ IF r.res.kind = "Ok"
              THEN /\ num' = Some(r.res.val)
                   /\ idx' = 1
                   /\ pc' = "loop"
                   /\ UNCHANGED exit
              ELSE /\ exit' = r.res
                   /\ pc' = "done"
                   /\ UNCHANGED <<num, idx>>
    /\ UNCHANGED <<opt, checks, to_bases, from_base, from_num, call_vars>>

\* Lines 60-95: the pass of the loop on to_bases[idx].
Pass ==
    /\ pc = "loop"
    /\ idx <= Len(to_bases)
    /\ \E r \in {loop_pass(to_bases[idx], num[1], opt, checks)} :
           /\ stdout' = stdout \o r.out
           /\ exit' = r.exit
           /\ IF r.exit = Run
              THEN idx' = idx + 1 /\ pc' = pc
              ELSE idx' = idx /\ pc' = "done"
    /\ UNCHANGED <<opt, checks, to_bases, from_base, from_num, num, call_vars>>

\* Line 96: return Ok(()).
Return ==
    /\ pc = "loop"
    /\ idx > Len(to_bases)
    /\ exit' = Ok(<<>>)
    /\ pc' = "done"
    /\ UNCHANGED <<opt, checks, to_bases, from_base, from_num, num, idx, stdout,
                   call_vars>>


MainIdle ==
    /\ opt = None /\ checks = FALSE /\ pc = "idle" /\ to_bases = <<>>
    /\ from_base = None /\ from_num = None /\ num = None /\ idx = 0
    /\ stdout = <<>> /\ exit = Run
CallIdle == call = None /\ ret = Pending /\ back = Pending

(***************************************************************************)
(* The runs of main that are followed: the command lines.                  *)
(***************************************************************************)
DefaultSepChar == "_"

MainFromBaseChars == {<<"b">>, <<"h">>, <<"1", "8", "_", "7">>, <<"G">>}
MainFromNums == {None, Some(<<"1", "8", "7">>), Some(<<"1", "6">>)}
MainToBases == {<<>>,
                << <<"1", "6">> >>,
                << <<"2">>, <<"9", "9">> >>,
                << <<"8">>, <<"1", "0">>, <<"z">>, <<"2">> >>,
                << <<"3", "3">>, <<"+", "2">> >>}
MainFromBases == {U32(10), U32(1)}
MainSepLengths == {U32(0), U32(4), UMax(U32Limbs)}
MainVerbosities == {0, 1}
MainPads == {0}
MainFlags == {[silent |-> FALSE, bare |-> FALSE, no_sep |-> FALSE],
              [silent |-> TRUE, bare |-> FALSE, no_sep |-> FALSE],
              [silent |-> FALSE, bare |-> TRUE, no_sep |-> FALSE],
              [silent |-> FALSE, bare |-> FALSE, no_sep |-> TRUE]}

Opts(p, l, f, fb, v, c, n, t) ==
    [pad |-> p, sep_length |-> l, sep_char |-> DefaultSepChar, no_sep |-> f.no_sep,
     from_base |-> fb, silent |-> f.silent, bare |-> f.bare, verbosity |-> v,
     from_base_char |-> c, from_num |-> n, to_bases |-> t]

Init ==
    /\ \E p \in MainPads, l \in MainSepLengths, f \in MainFlags,
          fb \in MainFromBases, v \in MainVerbosities,
          c \in MainFromBaseChars, n \in MainFromNums, t \in MainToBases :
          opt = Opts(p, l, f, fb, v, c, n, t) /\ to_bases = t
    /\ checks \in BOOLEAN
    /\ pc = "resolve"
    /\ from_base = None /\ from_num = None /\ num = None /\ idx = 0
    /\ stdout = <<>> /\ exit = Run
    /\ CallIdle

Next == Resolve \/ Convert \/ Pass \/ Return

Spec == Init /\ [][Next]_vars

(***************************************************************************)
(* as_string_base on its own, and convert_to_base_10 on what it returned.  *)
(***************************************************************************)
MaxSmall == 40
MaxBase == 40

\* 2^64 - 1, 2^64, 2^127, 2^128 - 2^112 + 1 and 2^128 - 1.
BigValues ==
    {<<65535, 65535, 65535, 65535, 0, 0, 0, 0>>,
     <<0, 0, 0, 0, 1, 0, 0, 0>>,
     <<0, 0, 0, 0, 0, 0, 0, 32768>>,
     <<1, 0, 0, 0, 0, 0, 0, 65535>>,
     UMax(U128Limbs)}
RenderValues == {U128(n) : n \in 0..MaxSmall} \cup BigValues

\* 65538 (2 in its low 16 bits), 2^31 and 2^32 - 1 beside the small bases.
RenderBases ==
    {U32(b) : b \in 0..MaxBase} \cup {<<2, 1>>, <<0, 32768>>, UMax(U32Limbs)}

InitRender ==
    /\ MainIdle
    /\ call \in {[fn |-> "as_string_base", num |-> v, base |-> b, checks |-> c] :
                    v \in RenderValues, b \in RenderBases, c \in BOOLEAN}
    /\ ret = Pending
    /\ back = Pending

CallRender ==
    /\ call # None /\ call.fn = "as_string_base"
    /\ ret = Pending
    /\ ret' = as_string_base(call.num, call.base, call.checks)
    /\ UNCHANGED <<main_vars, call, back>>

CallParseBack ==
    /\ call # None /\ call.fn = "as_string_base"
    /\ ret.kind = "Ok"
    /\ back = Pending
    /\ \E r \in {convert_to_base_10(Some(ret.val), call.base, DefaultSepChar)} :
           back' = r.res /\ stdout' = stdout \o r.out
    /\ UNCHANGED <<quiet_vars, call, ret>>

NextRender == CallRender \/ CallParseBack

SpecRender == InitRender /\ [][NextRender]_vars


(***************************************************************************)
(* Positional notation, as the claims speak of it.                         *)
(***************************************************************************)
\* The digit symbols of rendering: '0'-'9' for 0-9 and 'A'-'W' for 10-32.
RenderAlphabet == DecChars \o SubSeq(UpperChars, 1, 23)
SymbolValue(c) == IndexOf(c, RenderAlphabet) - 1

\* The digit symbols of parsing: '0'-'9', then the letters in either case.
LetterValue(c) ==
    IF IndexOf(c, DecChars) > 0 THEN IndexOf(c, DecChars) - 1
    ELSE IF IndexOf(c, UpperChars) > 0 THEN 9 + IndexOf(c, UpperChars)
    ELSE IF IndexOf(c, LowerChars) > 0 THEN 9 + IndexOf(c, LowerChars)
    ELSE -1
IsDigitOf(c, b) == LetterValue(c) >= 0 /\ LetterValue(c) < b
AllDigitsOf(s, b) == \A i \in 1..Len(s) : IsDigitOf(s[i], b)

\* The number a string of digits of base b denotes, most significant digit
\* first: [val |-> its low 128 bits, fits |-> whether it is below 2^128].
PositionalStep(st) ==
    LET m == MulAdd(st.val, st.b, LetterValue(st.s[st.i]))
    IN  [st EXCEPT !.val = m.val, !.fits = st.fits /\ m.carry = 0, !.i = st.i + 1]
Positional(s, b) ==
    LET end == Iterate(PositionalStep,
                       [s |-> s, b |-> b, i |-> 1, val |-> UInt(0, U128Limbs),
                        fits |-> TRUE],
                       Len(s))
    IN  [val |-> end.val, fits |-> end.fits]

Rendered == call # None /\ call.fn = "as_string_base" /\ ret # Pending

(***************************************************************************)
(* Claims on as_string_base (SpecRender).                                  *)
(***************************************************************************)
\* C1: for every value v of the u128 range, 0 included, and every base b in
\* [2,33], convert_to_base_10 on the string as_string_base(v, b) returned, in
\* the same base, returns Ok(v).
C1_RoundTrip ==
    (Rendered /\ InRange(call.base, 2, 33)) =>
        /\ ret.kind = "Ok"
        /\ back # Pending => back = Ok(call.num)

\* C3: for every v in 1..2^128-1 and every base b in [2,33], as_string_base
\* returns Ok(s) (no overflow panic, no Err) and s is the positional notation
\* of v in base b: digits '0'-'9' and 'A'-'W' below b, most significant first,
\* at least one digit and the first one not zero.
C3_RenderPositional ==
    (Rendered /\ ~IsZero(call.num) /\ InRange(call.base, 2, 33)) =>
        /\ ret.kind = "Ok"
        /\ Len(ret.val) >= 1
        /\ \A i \in 1..Len(ret.val) :
              SymbolValue(ret.val[i]) >= 0 /\ SymbolValue(ret.val[i]) < Low(call.base)
        /\ ret.val[1] # "0"
        /\ Positional(ret.val, Low(call.base)) = [val |-> call.num, fits |-> TRUE]

\* The largest u128 was rendered in base 2, on 128 digits.
C3_Witness ==
    /\ Rendered /\ call.num = UMax(U128Limbs) /\ call.base = U32(2)
    /\ ret.kind = "Ok" /\ Len(ret.val) = LimbBits * U128Limbs

\* C4: the value 0 is rendered as the one-digit string "0", not as the empty
\* string, in every base of [2,33].
C4_ZeroRendersAsZero ==
    (Rendered /\ IsZero(call.num) /\ InRange(call.base, 2, 33)) =>
        ret = Ok(<<"0">>)

\* C7: as_string_base returns an error, and no digit string, for every base
\* outside [2,33] (0, 1, 34 and more) and every value: the base is rejected,
\* never clamped.
C7_BaseOutOfRangeRejected ==
    (Rendered /\ ~InRange(call.base, 2, 33)) => ret.kind = "Err"

\* Base 34, and a base whose low 16 bits are 2, were rejected for a value
\* that is not zero.
C7_Witness ==
    /\ Rendered /\ ~IsZero(call.num) /\ ret.kind = "Err"
    /\ call.base \in {U32(34), <<2, 1>>}


(***************************************************************************)
(* convert_to_base_10 on its own.                                          *)
(***************************************************************************)
MaxLitLen == 3

Rep(c, n) == [i \in 1..n |-> c]

\* 2^128 - 1 in decimal.
U128MaxDecimal ==
    <<"3", "4", "0", "2", "8", "2", "3", "6", "6", "9", "2", "0", "9", "3", "8",
      "4", "6", "3", "4", "6", "3", "3", "7", "4", "6", "0", "7", "4", "3", "1",
      "7", "6", "8", "2", "1", "1", "4", "5", "5">>

ParseAlphabet == {"1", "9", "f", "Z", "+", "-", "_"}
ShortLiterals == UNION {[1..k -> ParseAlphabet] : k \in 0..MaxLitLen}

\* Literals at the 128-bit boundary in bases 10, 2, 16 and 36, and literals
\* with a zero, a space, a sign or separators in them.
LongLiterals ==
    {U128MaxDecimal,
     SubSeq(U128MaxDecimal, 1, 38) \o <<"6">>,
     <<"+">> \o U128MaxDecimal,
     <<"_">> \o U128MaxDecimal \o <<"_", "_">>,
     Rep("1", LimbBits * U128Limbs),
     Rep("1", LimbBits * U128Limbs + 1),
     Rep("f", 32),
     <<"1">> \o Rep("0", 32),
     Rep("Z", 24),
     Rep("z", 25),
     <<"0">>, <<"0", "0", "7">>, <<" ", "1">>, <<"1", " ">>,
     <<"1", "_", "0", "0", "0">>, <<"_", "B", "_", "b", "_">>, <<"+", "_", "1">>}

ParseNums == {None} \cup {Some(l) : l \in ShortLiterals \cup LongLiterals}

\* The radixes 10, 2, 15, 16 and 36, and 0, 1, 37 and 65546 (10 in its low
\* 16 bits), which are none.
ParseBases ==
    <<U32(10), U32(2), U32(15), U32(16), U32(36),
      U32(0), U32(1), U32(37), <<10, 1>>>>

InitParse ==
    /\ MainIdle
    /\ \E i \in 1..Len(ParseBases), n \in ParseNums :
          call = [fn |-> "convert_to_base_10", from_num |-> n,
                  from_base |-> ParseBases[i], sep_char |-> DefaultSepChar]
    /\ ret = Pending
    /\ back = Pending

CallParse ==
    /\ call # None /\ call.fn = "convert_to_base_10"
    /\ ret = Pending
    /\ \E r \in {convert_to_base_10(call.from_num, call.from_base, call.sep_char)} :
           ret' = r.res /\ stdout' = stdout \o r.out
    /\ UNCHANGED <<quiet_vars, call, back>>

NextParse == CallParse

SpecParse == InitParse /\ [][NextParse]_vars

(***************************************************************************)
(* Claims on convert_to_base_10 (SpecParse).                               *)
(***************************************************************************)
Parsed == call # None /\ call.fn = "convert_to_base_10" /\ ret # Pending

\* The literal of the call with its separators removed (the call has one).
Stripped == SelectSeq(call.from_num[1], LAMBDA c : c # call.sep_char)

\* The literal without the one "+" that may lead it.
Unsigned(s) == IF s # <<>> /\ s[1] = "+" THEN Tail(s) ELSE s

\* C5 as claimed: convert_to_base_10 fails with InputBaseErr whenever the
\* literal is absent or is empty once the separators are removed, whatever
\* the input base.
C5_AbsentOrEmptyIsInputBaseErr ==
    (Parsed /\ (call.from_num = None \/ Stripped = <<>>)) => ret = Err(InputBaseErr)

\* C5 as amended: an absent literal fails with InputBaseErr whatever the input
\* base; a literal that is present and empty once the separators are removed
\* never fails with InputBaseErr: it fails with BaseConversionErr for an input
\* base in [2,36] and panics for any other.
C5_AbsentIsInputBaseErr_EmptyIsBaseConversionErr ==
    Parsed =>
        /\ call.from_num = None => ret = Err(InputBaseErr)
        /\ (call.from_num # None /\ Stripped = <<>>) =>
              IF InRange(call.from_base, 2, 36)
              THEN ret = Err(BaseConversionErr) ELSE ret.kind = "Panic"

\* A literal made of separators only was converted in base 10.
C5_Witness ==
    /\ Parsed /\ call.from_num # None /\ call.from_num[1] # <<>> /\ Stripped = <<>>
    /\ call.from_base = U32(10) /\ ret = Err(BaseConversionErr)

\* C6 as claimed: for an input base b in [2,36] and a literal that is present
\* and not empty once the separators are removed, the result is Ok(v) exactly
\* when every character left is a digit of base b and the number v they
\* denote fits 128 bits, and Err(BaseConversionErr) otherwise; no literal with
\* a character that is not a digit, a sign for one, is accepted.
C6_OkIffAllDigits ==
    (Parsed /\ call.from_num # None /\ Stripped # <<>>
            /\ InRange(call.from_base, 2, 36)) =>
        ret = IF AllDigitsOf(Stripped, Low(call.from_base))
                 /\ Positional(Stripped, Low(call.from_base)).fits
              THEN Ok(Positional(Stripped, Low(call.from_base)).val)
              ELSE Err(BaseConversionErr)

\* C6 as amended: the same, with one leading "+" allowed: the result is Ok(v)
\* exactly when, that "+" set aside, at least one character is left, every
\* one is a digit of base b (a letter in either case) and v fits 128 bits.
C6_OkIffAllDigitsAfterPlus ==
    (Parsed /\ call.from_num # None /\ Stripped # <<>>
            /\ InRange(call.from_base, 2, 36)) =>
        ret = IF Unsigned(Stripped) # <<>>
                 /\ AllDigitsOf(Unsigned(Stripped), Low(call.from_base))
                 /\ Positional(Unsigned(Stripped), Low(call.from_base)).fits
              THEN Ok(Positional(Unsigned(Stripped), Low(call.from_base)).val)
              ELSE Err(BaseConversionErr)

\* The largest u128 was parsed from its decimal digits behind a "+".
C6_Witness ==
    /\ Parsed /\ call.from_num = Some(<<"+">> \o U128MaxDecimal)
    /\ call.from_base = U32(10) /\ ret = Ok(UMax(U128Limbs))

\* C10: an input base that is no radix (0, 1, more than 36) is rejected by
\* convert_to_base_10 with one of the error codes as its result: never Ok,
\* and never an end without an error value.
C10_BadRadixIsAnError ==
    (Parsed /\ ~InRange(call.from_base, 2, 36)) =>
        ret.kind = "Err" /\ ret.err \in ErrorCode


(***************************************************************************)
(* get_bases on its own.                                                   *)
(***************************************************************************)
BasesFromBaseChars ==
    {<<"b">>, <<"o">>, <<"d">>, <<"h">>, <<"x">>, <<"B">>, <<"b", "b">>, <<"0", "x">>,
     <<"8", "0">>, <<"1", "0">>, <<>>}
BasesFromNums == {None, Some(<<"1", "8", "7">>), Some(<<"b">>), Some(<<>>)}
BasesFromBases == {U32(10), U32(16), U32(0), UMax(U32Limbs)}
BasesToBases == {<<>>,
                 << <<"1", "6">> >>,
                 << <<"2">>, <<"8">> >>,
                 << <<"1", "8", "7">>, <<"x">>, <<"2">> >>}

InitBases ==
    /\ MainIdle
    /\ call \in {[fn |-> "get_bases",
                   opt |-> [from_base_char |-> c, from_num |-> n, from_base |-> b],
                   to_bases |-> t] :
                    c \in BasesFromBaseChars, n \in BasesFromNums,
                    b \in BasesFromBases, t \in BasesToBases}
    /\ ret = Pending
    /\ back = Pending

CallGetBases ==
    /\ call # None /\ call.fn = "get_bases"
    /\ ret = Pending
    /\ ret' = get_bases(call.opt, call.to_bases)
    /\ UNCHANGED <<main_vars, call, back>>

NextBases == CallGetBases

SpecBases == InitBases /\ [][NextBases]_vars

Resolved == call # None /\ call.fn = "get_bases" /\ ret # Pending

\* The aliases of the claim and the base each stands for.
Aliases == {<<"b">>, <<"o">>, <<"d">>, <<"h">>, <<"x">>}
AliasBase(c) == CASE c = <<"b">> -> 2 [] c = <<"o">> -> 8 [] c = <<"d">> -> 10
                  [] c = <<"h">> -> 16 [] c = <<"x">> -> 16

\* C2: get_bases resolves the positional arguments by this case analysis.  If
\* from_base_char is one of the aliases b, o, d, h, x it returns (2, 8, 10, 16,
\* 16, with from_num as it is) and leaves the output-base list as it is.
\* Otherwise it returns (the from_base flag, Some(from_base_char)) and, with a
\* from_num, puts from_num in front of the list, the earlier entries kept in
\* their order; without one it leaves the list as it is.
C2_GetBasesCases ==
    Resolved =>
        IF call.opt.from_base_char \in Aliases
        THEN /\ ret.bases[1] = U32(AliasBase(call.opt.from_base_char))
             /\ ret.bases[2] = call.opt.from_num
             /\ ret.to_bases = call.to_bases
        ELSE /\ ret.bases[1] = call.opt.from_base
             /\ ret.bases[2] = Some(call.opt.from_base_char)
             /\ IF call.opt.from_num = None
                THEN ret.to_bases = call.to_bases
                ELSE /\ Len(ret.to_bases) = Len(call.to_bases) + 1
                     /\ ret.to_bases[1] = call.opt.from_num[1]
                     /\ \A i \in 1..Len(call.to_bases) :
                           ret.to_bases[i + 1] = call.to_bases[i]

\* The shift of the repository's test, on a list that has entries: "80" is no
\* alias, and "187" went in front of the output bases.
C2_Witness ==
    /\ Resolved
    /\ call.opt.from_base_char = <<"8", "0">>
    /\ call.opt.from_num = Some(<<"1", "8", "7">>)
    /\ call.opt.from_base = U32(10)
    /\ Len(call.to_bases) = 2
    /\ ret.bases = <<U32(10), Some(<<"8", "0">>)>>
    /\ ret.to_bases[1] = <<"1", "8", "7">>

(***************************************************************************)
(* The grouping step of main on its own.                                   *)
(***************************************************************************)
MaxGroupLen == 12
MaxWidth == 6

\* A string of n digits, "123456789012...".
DigitString(n) == [i \in 1..n |-> DecChars[(i % 10) + 1]]

\* The widths 0..MaxWidth, and 2^31 - 1, 2^31, 2^31 + 1, 2^32 - 2, 2^32 - 1.
GroupWidths ==
    {U32(w) : w \in 0..MaxWidth}
    \cup {<<65535, 32767>>, <<0, 32768>>, <<1, 32768>>, <<65534, 65535>>, UMax(U32Limbs)}

InitGroup ==
    /\ MainIdle
    /\ call \in {[fn |-> "pad_out_str", out_str |-> DigitString(n),
                   opt |-> [no_sep |-> ns, sep_length |-> w, sep_char |-> c],
                   checks |-> chk] :
                    n \in 1..MaxGroupLen, ns \in BOOLEAN, w \in GroupWidths,
                    c \in {DefaultSepChar, "1"}, chk \in BOOLEAN}
    /\ ret = Pending
    /\ back = Pending

CallGroup ==
    /\ call # None /\ call.fn = "pad_out_str"
    /\ ret = Pending
    /\ ret' = pad_out_str(call.out_str, call.opt, call.checks)
    /\ UNCHANGED <<main_vars, call, back>>

NextGroup == CallGroup

SpecGroup == InitGroup /\ [][NextGroup]_vars

Grouped == call # None /\ call.fn = "pad_out_str" /\ ret # Pending

\* The group width as it bears on a string of n digits: the width itself up
\* to n, and n + 1 for any greater width (no separator fits).
WidthOn(sep_length, n) == IF InRange(sep_length, 0, n) THEN Low(sep_length) ELSE n + 1

\* s is the string of digits d grouped by w from the right end with the
\* separator c: it has (Len(d) - 1) \div w separators; counted from the right
\* end, every (w + 1)-th character is a separator and the others are the
\* digits of d in their order; its first and last characters are digits.
IsGrouped(s, d, w, c) ==
    /\ Len(s) = Len(d) + (IF Len(d) = 0 THEN 0 ELSE (Len(d) - 1) \div w)
    /\ \A r \in 1..Len(s) :
          IF r % (w + 1) = 0
          THEN s[Len(s) - r + 1] = c
          ELSE s[Len(s) - r + 1] = d[Len(d) - (r - (r \div (w + 1))) + 1]
    /\ Len(s) > 0 => (Len(s) % (w + 1) # 0 /\ 1 % (w + 1) # 0)

\* C8: with grouping enabled, for every rendered string of n digits and every
\* group width w > 0 of the u32 range, the grouping step completes and gives
\* the digits grouped by w from the right end: the digits unchanged, a
\* separator before each block of w digits counted from the right, none at
\* the start or the end (n = 9 and w = 4: 2 separators).
C8_GroupingCompletes ==
    (Grouped /\ ~call.opt.no_sep /\ ~IsZero(call.opt.sep_length)) =>
        /\ ret.kind = "Ok"
        /\ IsGrouped(ret.val, call.out_str,
                     WidthOn(call.opt.sep_length, Len(call.out_str)),
                     call.opt.sep_char)

\* The same for the widths below 2^31, which the code groups as claimed.
GroupingBelow2p31 ==
    (Grouped /\ ~call.opt.no_sep /\ ~IsZero(call.opt.sep_length)
             /\ call.opt.sep_length[2] < LimbBase \div 2) =>
        /\ ret.kind = "Ok"
        /\ IsGrouped(ret.val, call.out_str,
                     WidthOn(call.opt.sep_length, Len(call.out_str)),
                     call.opt.sep_char)


(***************************************************************************)
(* Claims on main (Spec).                                                  *)
(***************************************************************************)
ResultLines(out) == SelectSeq(out, LAMBDA e : e.kind = "result")

\* C9 as claimed: in every run of main that ends in an error of one of the
\* three kinds, an output base that does not parse or is out of range at any
\* position of the list included, no line of a result was printed before the
\* failure.
C9_NoResultBeforeFailure ==
    (pc = "done" /\ exit.kind = "Err") => ResultLines(stdout) = <<>>

\* C9 as amended: a run of main that ends in an error prints nothing after
\* the message of that error, and no line for the output base that failed or
\* for one behind it.  A failure of convert_to_base_10 comes before any line
\* of a result; a failure at the k-th output base comes after the lines of
\* the k-1 bases in front of it, which were printed (none if silent) and
\* carry, unless bare, the prefix of their base.
C9_NoResultFromFailureOn ==
    (pc = "done" /\ exit.kind = "Err") =>
        /\ stdout # <<>> /\ stdout[Len(stdout)].kind = "message"
        /\ IF num = None
           THEN ResultLines(stdout) = <<>>
           ELSE /\ idx \in 1..Len(to_bases)
                /\ Len(ResultLines(stdout)) = IF opt.silent THEN 0 ELSE idx - 1
                /\ \A j \in 1..Len(ResultLines(stdout)) :
                      opt.bare \/
                      SubSeq(ResultLines(stdout)[j].line, 1, 9) =
                          (<<"B", "a", "s", "e", " ">>
                           \o fmt02(Low(Positional(Unsigned(to_bases[j]), 10).val)))
                          \o <<":", " ">>

\* A run ended in TargetBaseErr at its third output base with the lines of
\* the first two printed.
C9_Witness ==
    /\ pc = "done" /\ exit = Err(TargetBaseErr) /\ idx = 3
    /\ Len(ResultLines(stdout)) = 2

=============================================================================
